---- MODULE Spec2Model ----
(***************************************************************************)
(* Model of the code-execution sandbox (lib/code-execution/sandbox.ts) and *)
(* of the playground that calls it (components/code/code-editor.tsx),      *)
(* with the pattern catalog (lib/patterns) and the pages that read it.     *)
(*                                                                         *)
(* Text is a sequence of one-character strings, so that the presence of a  *)
(* character in a line is something a formula can test.  The only pieces   *)
(* longer than one character are the fixed messages of the sandbox and of  *)
(* the playground, which hold none of the characters the formulas test.    *)
(*                                                                         *)
(* JavaScript runs one task at a time: while the code handed to eval is    *)
(* running nothing else runs (no timer callback, no click handler, no      *)
(* promise reaction).  The evaluation of the code is split into steps      *)
(* (console calls, the passing of time, a throw, the return) so that the   *)
(* states inside one synchronous run are visible to the formulas.          *)
(***************************************************************************)
EXTENDS Integers, Sequences, FiniteSets, TLC

\* ------------------------------------------------------------------ bounds
\* Longest string handed to sanitizeOutput in SanSpec.
MaxLen == 3
\* Console calls one execution makes at most.
MaxLogs == 2
\* execute calls made in one behaviour at most.
MaxCalls == 3
\* Date.now() when the page is loaded, and how far the clock is followed.
\* (The real clock is about 1.7e12; any value >= 1000 behaves the same.)
Epoch == 10000
MaxElapsed == 5001
\* Callbacks of the executed code waiting to run at most.
MaxTasks == 1

\* ------------------------------------------------------- program constants
EXECUTION_TIMEOUT == 5000
MIN_EXECUTION_INTERVAL == 1000

\* Related-pattern links followed from the first pattern page at most.
MaxHops == 3

\* ------------------------------------------------------------------ text
Alphabet == {"<", ">", "\"", "'", "/", "&", "a"}
HtmlSignificant == {"<", ">", "\"", "'", "/"}

ScriptTag == <<"<", "s", "c", "r", "i", "p", "t", ">">>
EscapedScriptTag == <<"&", "l", "t", ";", "s", "c", "r", "i", "p", "t", "&", "g", "t", ";">>

\* a string that is itself the text of an entity
EntityText == <<"&", "l", "t", ";">>

Strings(n) == UNION {[1..k -> Alphabet] : k \in 0..n}

\* t occurs in s as a contiguous substring
Contains(s, t) ==
  \E i \in 0..(Len(s) - Len(t)) : \A j \in 1..Len(t) : s[i + j] = t[j]

HasChar(s, cs) == \E i \in 1..Len(s) : s[i] \in cs

RECURSIVE Concat(_)
Concat(ss) == IF ss = <<>> THEN <<>> ELSE Head(ss) \o Concat(Tail(ss))

\* Array.prototype.join: the elements separated by sep
RECURSIVE Join(_, _)
Join(ss, sep) ==
  IF ss = <<>> THEN <<>>
  ELSE IF Len(ss) = 1 THEN Head(ss)
  ELSE Head(ss) \o sep \o Join(Tail(ss), sep)

\* String.prototype.replace(/ch/g, rep): every occurrence, left to right
RECURSIVE ReplaceAll(_, _, _)
ReplaceAll(s, ch, rep) ==
  IF s = <<>> THEN <<>>
  ELSE (IF Head(s) = ch THEN rep ELSE <<Head(s)>>) \o ReplaceAll(Tail(s), ch, rep)

\* ---------------------------------------------------------------- values
\* The JavaScript values the executed code logs or throws.  str is the
\* string itself, the string held by the object's one property a, the one
\* element of the array, the source text of the function, the digits of
\* the number, or the message of the Error.
StrV(s)   == [type |-> "string",   str |-> s]
ObjV(s)   == [type |-> "object",   str |-> s]
ArrV(s)   == [type |-> "array",    str |-> s]
FunV(s)   == [type |-> "function", str |-> s]
NumV(s)   == [type |-> "number",   str |-> s]
ErrV(s)   == [type |-> "error",    str |-> s]
\* an object that refers to itself: JSON.stringify throws on it
CircularV == [type |-> "circular", str |-> <<>>]
\* Object.create(null): no toString, so String(value) throws a TypeError
NullProtoV == [type |-> "nullproto", str |-> <<>>]
NullV      == [type |-> "null",      str |-> <<>>]
UndefinedV == [type |-> "undefined", str |-> <<>>]

\* typeof value
TypeOf(v) ==
  CASE v.type = "string"    -> "string"
    [] v.type = "function"  -> "function"
    [] v.type = "number"    -> "number"
    [] v.type = "undefined" -> "undefined"
    [] OTHER                -> "object"

\* String(value) throws
StringThrows(v) == v.type = "nullproto"

\* String(value), where it does not throw
String(v) ==
  CASE v.type = "string"    -> v.str
    [] v.type = "function"  -> v.str
    [] v.type = "number"    -> v.str
    [] v.type = "array"     -> v.str
    [] v.type = "error"     -> <<"E", "r", "r", "o", "r", ":", " ">> \o v.str
    [] v.type = "null"      -> <<"n", "u", "l", "l">>
    [] v.type = "undefined" -> <<"u", "n", "d", "e", "f", "i", "n", "e", "d">>
    [] OTHER                -> <<"[", "o", "b", "j", "e", "c", "t", " ", "O", "b", "j", "e", "c", "t", "]">>

\* the quoting JSON.stringify applies to a string: " and \ get a backslash
JSONQuote(s) ==
  <<"\"">> \o ReplaceAll(ReplaceAll(s, "\\", <<"\\", "\\">>), "\"", <<"\\", "\"">>) \o <<"\"">>

JSONStringifyThrows(v) == v.type = "circular"

\* JSON.stringify(value, null, 2) for the object values above
JSONStringify(v) ==
  CASE v.type = "object" ->
         <<"{", "\n", " ", " ", "\"", "a", "\"", ":", " ">> \o JSONQuote(v.str) \o <<"\n", "}">>
    [] v.type = "array" ->
         <<"[", "\n", " ", " ">> \o JSONQuote(v.str) \o <<"\n", "]">>
    [] OTHER -> <<"{", "}">>

\* sanitizeOutput without the replacement of the single quote
sanitizeOutput_NoQuote(value) ==
  IF TypeOf(value) = "string" THEN
    ReplaceAll(ReplaceAll(ReplaceAll(ReplaceAll(value.str,
        "<", <<"&", "l", "t", ";">>),
        ">", <<"&", "g", "t", ";">>),
        "\"", <<"&", "q", "u", "o", "t", ";">>),
        "/", <<"&", "#", "x", "2", "F", ";">>)
  ELSE String(value)

sanitizeOutput(value) ==
  IF TypeOf(value) = "string" THEN
    ReplaceAll(ReplaceAll(ReplaceAll(ReplaceAll(ReplaceAll(value.str,
        "<", <<"&", "l", "t", ";">>),
        ">", <<"&", "g", "t", ";">>),
        "\"", <<"&", "q", "u", "o", "t", ";">>),
        "'", <<"&", "#", "x", "2", "7", ";">>),
        "/", <<"&", "#", "x", "2", "F", ";">>)
  ELSE IF TypeOf(value) = "object" /\ value.type # "null" THEN
    IF JSONStringifyThrows(value) THEN String(value) ELSE JSONStringify(value)
  ELSE String(value)


\* ----------------------------------------------------------------- state
\* The playgrounds (callers) of the one CodeSandbox class: one in Spec,
\* two that share the class in SharedSpec.
OnePlayground == {"p1"}
TwoPlaygrounds == {"p1", "p2"}

VARIABLES
  now,            \* Date.now()
  lastExecution,  \* CodeSandbox.lastExecution
  console,        \* what console.log, console.error, console.warn are bound to
  realConsole,    \* number of calls that reached the browser's own console
  call,           \* per playground: the execute call it made last
  ui,             \* per playground: the React state of CodePlayground
  hist,           \* history of the calls (not program state)
  input,          \* SanSpec: the value handed to sanitizeOutput
  sanitized,      \* SanSpec: what sanitizeOutput returned
  tasks,          \* callbacks the executed code scheduled and that have not run
  query,          \* CatalogSpec: the id and the category asked for
  answer,         \* CatalogSpec: what getPatternById, getPatternsByCategory returned
  page            \* CatalogSpec: what PatternsPage rendered; NavSpec: the open
                  \* pattern page (route)

vars == <<now, lastExecution, console, realConsole, call, ui, hist, input, sanitized,
          tasks, query, answer, page>>

\* ------------------------------------------------------------ the catalog
\* A Pattern record, with the fields the lookups and the pages read.
Pattern(id, name, category, related) ==
  [id |-> id, name |-> name, category |-> category, relatedPatterns |-> related]

singletonPattern ==
  Pattern("singleton", "Singleton", "creational",
          <<"factory-method", "abstract-factory", "prototype">>)
factoryMethodPattern ==
  Pattern("factory-method", "Factory Method", "creational",
          <<"abstract-factory", "prototype", "singleton">>)
builderPattern ==
  Pattern("builder", "Builder", "creational", <<"abstract-factory", "composite">>)
abstractFactoryPattern ==
  Pattern("abstract-factory", "Abstract Factory", "creational",
          <<"factory-method", "singleton", "prototype">>)

\* prototypePattern with a related id that no record has
prototypePattern_Dangling ==
  Pattern("prototype", "Prototype", "creational",
          <<"abstract-factory", "composite", "flyweight">>)

prototypePattern ==
  Pattern("prototype", "Prototype", "creational",
          <<"abstract-factory", "composite", "decorator">>)

creationalPatterns ==
  <<singletonPattern, factoryMethodPattern, builderPattern, abstractFactoryPattern,
    prototypePattern>>

decoratorPattern ==
  Pattern("decorator", "Decorator", "structural", <<"adapter", "composite", "strategy">>)
adapterPattern ==
  Pattern("adapter", "Adapter", "structural", <<"decorator", "proxy">>)
\* compositePattern declared with the category of another list
compositePattern_Behavioral ==
  Pattern("composite", "Composite", "behavioral", <<"decorator">>)

compositePattern ==
  Pattern("composite", "Composite", "structural", <<"decorator">>)
facadePattern ==
  Pattern("facade", "Facade", "structural", <<"adapter", "abstract-factory">>)
proxyPattern ==
  Pattern("proxy", "Proxy", "structural", <<"adapter", "decorator">>)

structuralPatterns ==
  <<decoratorPattern, adapterPattern, compositePattern, facadePattern, proxyPattern>>

observerPattern ==
  Pattern("observer", "Observer", "behavioral", <<"singleton">>)
strategyPattern ==
  Pattern("strategy", "Strategy", "behavioral", <<"state">>)
commandPattern ==
  Pattern("command", "Command", "behavioral", <<"composite", "prototype">>)

\* statePattern with the id of the record it was copied from
statePattern_CopiedId ==
  Pattern("strategy", "State", "behavioral", <<"strategy", "singleton">>)

statePattern ==
  Pattern("state", "State", "behavioral", <<"strategy", "singleton">>)

behavioralPatterns ==
  <<observerPattern, strategyPattern, commandPattern, statePattern>>

\* allPatterns that spreads structuralPatterns twice
allPatterns_StructuralTwice ==
  creationalPatterns \o structuralPatterns \o structuralPatterns \o behavioralPatterns

allPatterns == creationalPatterns \o structuralPatterns \o behavioralPatterns

\* what Array.prototype.find returns when no element matches
Undefined == Pattern("", "", "", <<>>)

\* allPatterns.find((pattern) => pattern.id === id): the first match
getPatternById(id) ==
  LET hits == {i \in 1..Len(allPatterns) : allPatterns[i].id = id} IN
  IF hits = {} THEN Undefined
  ELSE allPatterns[CHOOSE i \in hits : \A j \in hits : i <= j]

RECURSIVE Reverse(_)
Reverse(seq) == IF seq = <<>> THEN <<>> ELSE Append(Reverse(Tail(seq)), Head(seq))

\* getPatternsByCategory that hands the matches back in reverse order
getPatternsByCategory_Reversed(category) ==
  Reverse(SelectSeq(allPatterns, LAMBDA pattern : pattern.category = category))

\* allPatterns.filter((pattern) => pattern.category === category)
getPatternsByCategory(category) ==
  SelectSeq(allPatterns, LAMBDA pattern : pattern.category = category)

Categories == {"creational", "structural", "behavioral"}

\* the ids and categories asked for: those of the catalog, the ids of the
\* Gang-of-Four patterns the catalog does not hold, a display name, the
\* empty string, and a category no record has
QueryIds ==
  {allPatterns[i].id : i \in 1..Len(allPatterns)}
  \cup {"bridge", "flyweight", "chain-of-responsibility", "interpreter", "iterator",
        "mediator", "memento", "template-method", "visitor", "Singleton", ""}
QueryCategories == Categories \cup {"architectural"}

NoAnswer ==
  [byId |-> [done |-> FALSE, value |-> Undefined],
   byCategory |-> [done |-> FALSE, value |-> <<>>]]
\* no pattern page is open
NoRoute == [slug |-> "", status |-> "none", links |-> <<>>, trail |-> <<>>]
NoPage ==
  [shown |-> FALSE, creational |-> <<>>, structural |-> <<>>, behavioral |-> <<>>,
   total |-> 0, route |-> NoRoute]

\* generateStaticParams(): allPatterns.map((pattern) => ({ slug: pattern.id }))
generateStaticParams == [i \in 1..Len(allPatterns) |-> [slug |-> allPatterns[i].id]]

\* a related link whose href is built from the name of the related pattern
LinkTarget_Name(relatedId, relatedPattern) == relatedPattern.name

\* href={`/patterns/${relatedId}`}: the slug the link leads to
LinkTarget(relatedId, relatedPattern) == relatedId

\* the links PatternPage renders: one for each related id that resolves
RelatedLinks(pattern) ==
  LET resolving == SelectSeq(pattern.relatedPatterns,
                             LAMBDA relatedId : getPatternById(relatedId) # Undefined)
  IN [k \in 1..Len(resolving) |-> LinkTarget(resolving[k], getPatternById(resolving[k]))]

\* PatternPage for a slug: notFound() when no pattern has this id
PatternPage(slug, trail) ==
  LET pattern == getPatternById(slug) IN
  IF pattern = Undefined
  THEN [slug |-> slug, status |-> "notFound", links |-> <<>>, trail |-> trail]
  ELSE [slug |-> slug, status |-> "pattern", links |-> RelatedLinks(pattern),
        trail |-> trail]

\* the catalog variables of a specification that does not use the catalog
CatalogIdle ==
  /\ query = [id |-> "", category |-> ""]
  /\ answer = NoAnswer
  /\ page = NoPage

NoText == <<>>
NoValue == [type |-> "none", str |-> <<>>]

RateLimitMessage ==
  <<"Please wait before running code again (rate limit: 1 execution per second)">>
TimeoutMessage ==
  <<"Execution timeout: Code took longer than 5 seconds to execute">>
ErrorPrefix == <<"E", "r", "r", "o", "r", ":", " ">>
UnexpectedPrefix == <<"Unexpected error: ">>

\* ExecutionResult: output, and error when hasError
Result(out, hasErr, err) == [output |-> out, hasError |-> hasErr, error |-> err]
NoResult == Result(<<>>, FALSE, NoText)

Original == [kind |-> "original", call |-> "none", prefix |-> NoText]
Capture(p, prefix) == [kind |-> "capture", call |-> p, prefix |-> prefix]
OriginalConsole == [log |-> Original, error |-> Original, warn |-> Original]

\* the console calls the executed code can make, and the values it can throw
ConsoleCalls ==
  { [level |-> "log",   args |-> <<StrV(<<"<", "a", ">">>)>>],
    [level |-> "error", args |-> <<StrV(<<"a">>)>>],
    [level |-> "warn",  args |-> <<ObjV(<<"<">>)>>],
    [level |-> "log",   args |-> <<StrV(<<"a">>), NumV(<<"1">>)>>] }

Boom == <<"b", "o", "o", "m">>
Thrown == {ErrV(Boom), StrV(<<"a">>), NullProtoV}

\* how far the clock moves in one step
TickSteps == {999, 1000, 5001}

\* the bare name the executed code read last, and what it evaluated to
NoRead == [name |-> "", value |-> ""]

IdleCall ==
  [phase |-> "idle", accepted |-> FALSE, start |-> 0, logs |-> <<>>,
   completed |-> FALSE, timer |-> "none", promise |-> "none",
   result |-> NoResult, original |-> OriginalConsole,
   made |-> <<>>, threw |-> NoValue, late |-> FALSE, resolves |-> 0,
   read |-> NoRead, caller |-> "", gen |-> 0]

\* code is "original" (pattern.code) or "edited".  output is an array, and
\* setOutput(result.output) stores the array it is given: outputOf is the
\* number (gen) of the call whose logs array the state holds, 0 for an
\* array of its own.  wasReset is not React state: it records that Reset
\* was the last thing the user did.
IdleUi ==
  [isRunning |-> FALSE, output |-> <<>>, hasError |-> FALSE, error |-> NoText,
   code |-> "original", wasReset |-> FALSE, outputOf |-> 0]

Init ==
  /\ now = Epoch
  /\ lastExecution = 0
  /\ console = OriginalConsole
  /\ realConsole = 0
  /\ call = [p \in OnePlayground |-> IdleCall]
  /\ ui = [p \in OnePlayground |-> IdleUi]
  /\ hist = [calls |-> 0, acceptLog |-> <<>>]
  /\ input = NoValue
  /\ sanitized = [done |-> FALSE, text |-> NoText]
  /\ tasks = <<>>
  /\ CatalogIdle

\* ------------------------------------------------------------ the sandbox
\* checkRateLimit that never records the accepted call
checkRateLimit_NoUpdate(t, last) ==
  IF t - last < MIN_EXECUTION_INTERVAL
  THEN [ok |-> FALSE, lastExecution |-> last]
  ELSE [ok |-> TRUE, lastExecution |-> last]

\* checkRateLimit that restarts the interval on a rejected call
checkRateLimit_ResetOnReject(t, last) ==
  IF t - last < MIN_EXECUTION_INTERVAL
  THEN [ok |-> FALSE, lastExecution |-> t]
  ELSE [ok |-> TRUE, lastExecution |-> t]

\* checkRateLimit that also rejects a call made exactly one interval later
checkRateLimit_Inclusive(t, last) ==
  IF t - last <= MIN_EXECUTION_INTERVAL
  THEN [ok |-> FALSE, lastExecution |-> last]
  ELSE [ok |-> TRUE, lastExecution |-> t]

\* checkRateLimit(): the answer and the new value of lastExecution
checkRateLimit(t, last) ==
  IF t - last < MIN_EXECUTION_INTERVAL
  THEN [ok |-> FALSE, lastExecution |-> last]
  ELSE [ok |-> TRUE, lastExecution |-> t]

\* the result of a rate-limited call
RateLimitResult == Result(<<>>, TRUE, RateLimitMessage)

\* the console replacement that leaves console.warn alone
InstallCapture_NoWarn(p, c) ==
  [log   |-> Capture(p, NoText),
   error |-> Capture(p, <<"E", "R", "R", "O", "R", ":", " ">>),
   warn  |-> c.warn]

\* console.log, console.error and console.warn replaced by the capturing
\* functions of call p; c is the console before
InstallCapture(p, c) ==
  [log   |-> Capture(p, NoText),
   error |-> Capture(p, <<"E", "R", "R", "O", "R", ":", " ">>),
   warn  |-> Capture(p, <<"W", "A", "R", "N", "I", "N", "G", ":", " ">>)]

\* the arguments joined without a separator
SanitizedArgs_NoSeparator(args) ==
  Join([i \in 1..Len(args) |-> sanitizeOutput(args[i])], <<>>)

\* args.map((arg) => this.sanitizeOutput(arg)).join(' ')
SanitizedArgs(args) == Join([i \in 1..Len(args) |-> sanitizeOutput(args[i])], <<" ">>)

\* the line a capturing function pushes
CaptureLine(prefix, args) == prefix \o SanitizedArgs(args)

\* the text of the error field for a thrown value e
ErrorText(e) == ErrorPrefix \o (IF e.type = "error" THEN e.str ELSE String(e))

\* the catch branch that resolves without the lines captured so far
ErrorResult_DropOutput(logs, e) == Result(<<>>, TRUE, ErrorText(e))

\* resolve({ output: logs, error: `Error: ${...}` })
ErrorResult(logs, e) == Result(logs, TRUE, ErrorText(e))

SuccessResult(logs) == Result(logs, FALSE, NoText)

TimeoutResult(logs) == Result(logs, TRUE, TimeoutMessage)

\* the bindings restrictedEval declares around eval(code)
RestrictedScope_NoSessionStorage ==
  [name \in {"window", "document", "localStorage", "fetch", "XMLHttpRequest"}
     |-> "undefined"]

RestrictedScope ==
  [name \in {"window", "document", "localStorage", "sessionStorage", "fetch",
             "XMLHttpRequest"} |-> "undefined"]

\* typeof the globals of the page that the executed code may name
GlobalScope ==
  [name \in {"window", "document", "localStorage", "sessionStorage", "globalThis",
             "console"} |-> "object"]
  @@ [name \in {"fetch", "XMLHttpRequest", "setTimeout"} |-> "function"]

\* what a bare name evaluates to inside eval(code): the innermost binding
Resolve(name) ==
  IF name \in DOMAIN RestrictedScope THEN RestrictedScope[name] ELSE GlobalScope[name]

\* disabled={isRunning} of the Run Code and of the Reset button
RunDisabled(p) == ui[p].isRunning
ResetDisabled(p) == ui[p].isRunning

\* the output panel is rendered: output.length > 0 || error
PanelShown(p) == Len(ui[p].output) > 0 \/ ui[p].hasError

\* the one thread is free: no code is being evaluated and no promise
\* reaction (microtask) is waiting to run
ThreadFree == \A p \in DOMAIN call : call[p].phase = "idle"

\* the code of call p is the code that is running: it is being evaluated
\* and is not waiting for a call of execute it made itself to return
Running(p) ==
  /\ call[p].phase = "evaluating"
  /\ \A q \in DOMAIN call : ~(call[q].phase = "evaluating" /\ call[q].caller = p)


\* CodePlayground.runCode up to its await, with the synchronous part of
\* CodeSandbox.execute: the rate check, the replacement of the console
\* functions, the promise and its timer.  eval(code) follows in the steps
\* EvalConsole, Tick, EvalThrow and EvalReturn.
RunCode(p) ==
  /\ ThreadFree
  /\ ~RunDisabled(p)
  /\ hist.calls < MaxCalls
  /\ LET rl == checkRateLimit(now, lastExecution) IN
     /\ ui' = [ui EXCEPT ![p] =
                 [isRunning |-> TRUE, output |-> <<>>, hasError |-> FALSE, error |-> NoText,
                  code |-> ui[p].code, wasReset |-> FALSE, outputOf |-> 0]]
     /\ lastExecution' = rl.lastExecution
     /\ hist' = [calls |-> hist.calls + 1,
                 acceptLog |-> IF rl.ok THEN Append(hist.acceptLog, [at |-> now, by |-> p])
                              ELSE hist.acceptLog]
     /\ IF rl.ok
        THEN /\ console' = InstallCapture(p, console)
             /\ call' = [call EXCEPT ![p] =
                           [IdleCall EXCEPT !.phase = "evaluating", !.accepted = TRUE,
                                            !.start = now, !.original = console,
                                            !.timer = "armed", !.promise = "pending",
                                            !.gen = hist.calls + 1]]
        ELSE /\ console' = console
             /\ call' = [call EXCEPT ![p] =
                           [IdleCall EXCEPT !.phase = "settled", !.promise = "resolved",
                                            !.result = RateLimitResult, !.resolves = 1]]
  /\ UNCHANGED <<now, realConsole, input, sanitized, tasks, query, answer, page>>

\* the executed code calls console.log, console.error or console.warn
EvalConsole(p, stmt) ==
  /\ Running(p)
  /\ Len(call[p].made) < MaxLogs
  /\ LET target == console[stmt.level] IN
     IF target.kind = "capture"
     THEN /\ call' = [call EXCEPT
                        ![target.call].logs = Append(@, CaptureLine(target.prefix, stmt.args)),
                        ![p].made = Append(@, stmt)]
          /\ UNCHANGED realConsole
     ELSE /\ realConsole' = realConsole + 1
          /\ call' = [call EXCEPT ![p].made = Append(@, stmt)]
  /\ UNCHANGED <<now, lastExecution, console, ui, hist, input, sanitized, tasks, query, answer, page>>

\* the success path that leaves the capturing functions in place
EvalReturn_KeepCapture(p) ==
  /\ Running(p)
  /\ LET c == call[p] IN
     IF ~c.completed
     THEN /\ console' = console
          /\ call' = [call EXCEPT ![p] =
                        [c EXCEPT !.phase = "settled", !.completed = TRUE,
                                  !.timer = "cleared", !.promise = "resolved",
                                  !.result = SuccessResult(c.logs),
                                  !.resolves = c.resolves + 1, !.late = (now - c.start >= EXECUTION_TIMEOUT)]]
     ELSE /\ console' = console
          /\ call' = [call EXCEPT ![p].phase = "settled"]
  /\ UNCHANGED <<now, lastExecution, realConsole, ui, hist, input, sanitized, tasks, query, answer, page>>

\* eval(code) returns: the success path of execute
EvalReturn(p) ==
  /\ Running(p)
  /\ LET c == call[p] IN
     IF ~c.completed
     THEN /\ console' = c.original
          /\ call' = [call EXCEPT ![p] =
                        [c EXCEPT !.phase = "settled", !.completed = TRUE,
                                  !.timer = "cleared", !.promise = "resolved",
                                  !.result = SuccessResult(c.logs),
                                  !.resolves = c.resolves + 1, !.late = (now - c.start >= EXECUTION_TIMEOUT)]]
     ELSE /\ console' = console
          /\ call' = [call EXCEPT ![p].phase = "settled"]
  /\ UNCHANGED <<now, lastExecution, realConsole, ui, hist, input, sanitized, tasks, query, answer, page>>

\* eval(code) throws e: the catch branch of execute.  When e is not an
\* Error and String(e) throws, the exception leaves the promise executor
\* and the promise is rejected.
EvalThrow(p, e) ==
  /\ Running(p)
  /\ LET c == call[p] IN
     IF ~c.completed
     THEN /\ console' = c.original
          /\ call' = [call EXCEPT ![p] =
                        IF e.type # "error" /\ StringThrows(e)
                        THEN [c EXCEPT !.phase = "settled", !.completed = TRUE,
                                       !.timer = "cleared", !.promise = "rejected",
                                       !.threw = e, !.late = (now - c.start >= EXECUTION_TIMEOUT)]
                        ELSE [c EXCEPT !.phase = "settled", !.completed = TRUE,
                                       !.timer = "cleared", !.promise = "resolved",
                                       !.result = ErrorResult(c.logs, e),
                                       !.resolves = c.resolves + 1,
                                       !.threw = e, !.late = (now - c.start >= EXECUTION_TIMEOUT)]]
     ELSE /\ console' = console
          /\ call' = [call EXCEPT ![p].phase = "settled", ![p].threw = e]
  /\ UNCHANGED <<now, lastExecution, realConsole, ui, hist, input, sanitized, tasks, query, answer, page>>

\* The callback handed to setTimeout.  A timer callback runs only when the
\* thread is free, and every path that frees the thread has cleared the
\* timer before: the action is never enabled (TimeoutNeverEnabled) and is
\* therefore not a disjunct of Next.
TimeoutHandler(p) ==
  /\ \A q \in DOMAIN call : call[q].phase # "evaluating"
  /\ call[p].timer = "armed"
  /\ now >= call[p].start + EXECUTION_TIMEOUT
  /\ LET c == call[p] IN
     IF ~c.completed
     THEN /\ console' = c.original
          /\ call' = [call EXCEPT ![p] =
                        [c EXCEPT !.phase = "settled", !.completed = TRUE,
                                  !.timer = "fired", !.promise = "resolved",
                                  !.result = TimeoutResult(c.logs),
                                  !.resolves = c.resolves + 1, !.late = (now - c.start >= EXECUTION_TIMEOUT)]]
     ELSE /\ console' = console
          /\ call' = [call EXCEPT ![p].timer = "fired"]
  /\ UNCHANGED <<now, lastExecution, realConsole, ui, hist, input, sanitized, tasks, query, answer, page>>

\* runCode without the finally block
Deliver_StaysRunning(p) ==
  /\ call[p].phase = "settled"
  /\ call[p].promise \in {"resolved", "rejected"}
  /\ LET c == call[p] IN
     ui' = [ui EXCEPT ![p] =
              IF c.promise = "resolved"
              THEN [ui[p] EXCEPT !.isRunning = TRUE, !.output = c.result.output, !.outputOf = c.gen,
                      !.hasError = c.result.hasError /\ c.result.error # NoText,
                      !.error = IF c.result.hasError THEN c.result.error ELSE NoText]
              ELSE [ui[p] EXCEPT !.isRunning = TRUE,
                      !.hasError = TRUE, !.error = UnexpectedPrefix]]
  /\ call' = [call EXCEPT ![p] = IdleCall]
  /\ UNCHANGED <<now, lastExecution, console, realConsole, hist, input, sanitized, tasks, query, answer, page>>

\* runCode that never calls setError
Deliver_DropError(p) ==
  /\ call[p].phase = "settled"
  /\ call[p].promise \in {"resolved", "rejected"}
  /\ LET c == call[p] IN
     ui' = [ui EXCEPT ![p] =
              IF c.promise = "resolved"
              THEN [ui[p] EXCEPT !.isRunning = FALSE, !.output = c.result.output, !.outputOf = c.gen]
              ELSE [ui[p] EXCEPT !.isRunning = FALSE]]
  /\ call' = [call EXCEPT ![p] = IdleCall]
  /\ UNCHANGED <<now, lastExecution, console, realConsole, hist, input, sanitized, tasks, query, answer, page>>

\* CodePlayground.runCode after its await: the promise reaction
Deliver(p) ==
  /\ call[p].phase = "settled"
  /\ call[p].promise \in {"resolved", "rejected"}
  /\ LET c == call[p] IN
     ui' = [ui EXCEPT ![p] =
              IF c.promise = "resolved"
              THEN [ui[p] EXCEPT !.isRunning = FALSE, !.output = c.result.output, !.outputOf = c.gen,
                      !.hasError = c.result.hasError /\ c.result.error # NoText,
                      !.error = IF c.result.hasError THEN c.result.error ELSE NoText]
              ELSE [ui[p] EXCEPT !.isRunning = FALSE,
                      !.hasError = TRUE, !.error = UnexpectedPrefix]]
  /\ call' = [call EXCEPT ![p] = IdleCall]
  /\ UNCHANGED <<now, lastExecution, console, realConsole, hist, input, sanitized, tasks, query, answer, page>>

\* the user changes the text in the editor: onChange={setCode}
EditCode(p) ==
  /\ ThreadFree
  /\ ui' = [ui EXCEPT ![p].code = "edited", ![p].wasReset = FALSE]
  /\ UNCHANGED <<now, lastExecution, console, realConsole, call, hist, input, sanitized, tasks,
                 query, answer, page>>

\* CodePlayground.resetCode: setCode(pattern.code); setOutput([])
ResetCode(p) ==
  /\ ThreadFree
  /\ ~ResetDisabled(p)
  /\ ui' = [ui EXCEPT ![p].code = "original", ![p].output = <<>>, ![p].outputOf = 0,
                       ![p].wasReset = TRUE]
  /\ UNCHANGED <<now, lastExecution, console, realConsole, call, hist, input, sanitized, tasks,
                 query, answer, page>>

\* the executed code reads a bare name
EvalRead(p, name) ==
  /\ Running(p)
  /\ call' = [call EXCEPT ![p].read = [name |-> name, value |-> Resolve(name)]]
  /\ UNCHANGED <<now, lastExecution, console, realConsole, ui, hist, input, sanitized, tasks, query, answer, page>>

\* the function a callback calls when it names console.log, console.error
\* or console.warn at the time it runs
ByName == [kind |-> "byname", call |-> "none", prefix |-> NoText]

\* the executed code schedules a callback (setTimeout, promise.then) that
\* will make the console call stmt
EvalSchedule(p, stmt) ==
  /\ Running(p)
  /\ Len(tasks) < MaxTasks
  /\ tasks' = Append(tasks, [owner |-> p, stmt |-> stmt, fn |-> ByName, gen |-> 0])
  /\ UNCHANGED <<now, lastExecution, console, realConsole, call, ui, hist, input, sanitized,
                 query, answer, page>>

\* the executed code keeps the console function in a variable
\* (const log = console.log) and schedules a callback that will call it
EvalScheduleRetained(p, stmt) ==
  /\ Running(p)
  /\ Len(tasks) < MaxTasks
  /\ LET fn == console[stmt.level] IN
     tasks' = Append(tasks, [owner |-> p, stmt |-> stmt, fn |-> fn,
                             gen |-> IF fn.kind = "capture" THEN call[fn.call].gen ELSE 0])
  /\ UNCHANGED <<now, lastExecution, console, realConsole, call, ui, hist, input, sanitized,
                 query, answer, page>>

\* a scheduled callback runs, once no code is being evaluated, and makes
\* its console call: through whatever the console function is bound to,
\* or through the function it kept.  A capturing function pushes onto the
\* logs array of its call; the result of that call and the output state
\* of the playground hold that same array.
RunTask ==
  /\ tasks # <<>>
  /\ \A q \in DOMAIN call : call[q].phase # "evaluating"
  /\ LET task == Head(tasks)
         target == IF task.fn = ByName THEN console[task.stmt.level] ELSE task.fn
     IN
     IF target.kind = "capture"
     THEN LET q == target.call
              g == IF task.fn = ByName THEN call[q].gen ELSE task.gen
              line == CaptureLine(target.prefix, task.stmt.args)
          IN /\ call' = [call EXCEPT ![q] =
                           IF @.gen # g THEN @
                           ELSE [@ EXCEPT !.logs = Append(@, line),
                                          !.result = IF call[q].promise = "resolved"
                                                     THEN [@ EXCEPT !.output = Append(@, line)]
                                                     ELSE @]]
             /\ ui' = [r \in DOMAIN ui |->
                         IF r = q /\ ui[r].outputOf = g
                         THEN [ui[r] EXCEPT !.output = Append(@, line)]
                         ELSE ui[r]]
             /\ UNCHANGED realConsole
     ELSE /\ realConsole' = realConsole + 1
          /\ UNCHANGED <<call, ui>>
  /\ tasks' = Tail(tasks)
  /\ UNCHANGED <<now, lastExecution, console, hist, input, sanitized, query, answer, page>>

\* the executed code of call p calls this.execute(...) itself (the direct
\* eval sees the this of execute): the synchronous part of execute once
\* more, as call n, on top of the running call
EvalExecute(p, n) ==
  /\ Running(p)
  /\ call[n].phase = "idle"
  /\ hist.calls < MaxCalls
  /\ LET rl == checkRateLimit(now, lastExecution) IN
     /\ lastExecution' = rl.lastExecution
     /\ hist' = [calls |-> hist.calls + 1,
                 acceptLog |-> IF rl.ok THEN Append(hist.acceptLog, [at |-> now, by |-> n])
                              ELSE hist.acceptLog]
     /\ IF rl.ok
        THEN /\ console' = InstallCapture(n, console)
             /\ call' = [call EXCEPT ![n] =
                           [IdleCall EXCEPT !.phase = "evaluating", !.accepted = TRUE,
                                            !.start = now, !.original = console,
                                            !.timer = "armed", !.promise = "pending",
                                            !.caller = p, !.gen = hist.calls + 1]]
        ELSE /\ console' = console
             /\ call' = [call EXCEPT ![n] =
                           [IdleCall EXCEPT !.phase = "settled", !.promise = "resolved",
                                            !.result = RateLimitResult, !.resolves = 1,
                                            !.caller = p]]
  /\ UNCHANGED <<now, realConsole, ui, input, sanitized, tasks, query, answer, page>>

\* the promise of a call made by executed code has been settled and is
\* dropped; no component awaits it
NestedDone(n) ==
  /\ call[n].phase = "settled"
  /\ call[n].caller # ""
  /\ call' = [call EXCEPT ![n] = IdleCall]
  /\ UNCHANGED <<now, lastExecution, console, realConsole, ui, hist, input, sanitized, tasks,
                 query, answer, page>>

\* time passes, also while the executed code is running
Tick(d) ==
  /\ now + d <= Epoch + MaxElapsed
  /\ now' = now + d
  /\ UNCHANGED <<lastExecution, console, realConsole, call, ui, hist, input, sanitized, tasks, query, answer, page>>

Next ==
  \/ \E p \in OnePlayground : RunCode(p)
  \/ \E p \in OnePlayground, stmt \in ConsoleCalls : EvalConsole(p, stmt)
  \/ \E p \in OnePlayground : EvalReturn(p)
  \/ \E p \in OnePlayground, e \in Thrown : EvalThrow(p, e)
  \/ \E p \in OnePlayground : Deliver(p)
  \/ \E d \in TickSteps : Tick(d)

Spec == Init /\ [][Next]_vars

\* --------------------------------------- two playgrounds sharing the sandbox
SharedConsoleCalls == {[level |-> "log", args |-> <<StrV(<<"a">>)>>]}
SharedThrown == {ErrV(Boom)}

SharedInit ==
  /\ now = Epoch
  /\ lastExecution = 0
  /\ console = OriginalConsole
  /\ realConsole = 0
  /\ call = [p \in TwoPlaygrounds |-> IdleCall]
  /\ ui = [p \in TwoPlaygrounds |-> IdleUi]
  /\ hist = [calls |-> 0, acceptLog |-> <<>>]
  /\ input = NoValue
  /\ sanitized = [done |-> FALSE, text |-> NoText]
  /\ tasks = <<>>
  /\ CatalogIdle

SharedNext ==
  \/ \E p \in TwoPlaygrounds : RunCode(p)
  \/ \E p \in TwoPlaygrounds, stmt \in SharedConsoleCalls : EvalConsole(p, stmt)
  \/ \E p \in TwoPlaygrounds : EvalReturn(p)
  \/ \E p \in TwoPlaygrounds, e \in SharedThrown : EvalThrow(p, e)
  \/ \E p \in TwoPlaygrounds : Deliver(p)
  \/ \E d \in TickSteps : Tick(d)

SharedSpec == SharedInit /\ [][SharedNext]_vars

\* ------------------------------------- executed code that reads bare names
ScopeNames == DOMAIN GlobalScope

ScopeNext ==
  \/ \E p \in OnePlayground : RunCode(p)
  \/ \E p \in OnePlayground, name \in ScopeNames : EvalRead(p, name)
  \/ \E p \in OnePlayground : EvalReturn(p)
  \/ \E p \in OnePlayground, e \in SharedThrown : EvalThrow(p, e)
  \/ \E p \in OnePlayground : Deliver(p)
  \/ \E d \in TickSteps : Tick(d)

ScopeSpec == Init /\ [][ScopeNext]_vars

\* ------------------------------------ executed code that schedules callbacks
AsyncNext ==
  \/ \E p \in OnePlayground : RunCode(p)
  \/ \E p \in OnePlayground, stmt \in SharedConsoleCalls : EvalConsole(p, stmt)
  \/ \E p \in OnePlayground, stmt \in SharedConsoleCalls : EvalSchedule(p, stmt)
  \/ \E p \in OnePlayground, stmt \in SharedConsoleCalls : EvalScheduleRetained(p, stmt)
  \/ \E p \in OnePlayground : EvalReturn(p)
  \/ \E p \in OnePlayground, e \in SharedThrown : EvalThrow(p, e)
  \/ \E p \in OnePlayground : Deliver(p)
  \/ RunTask
  \/ \E d \in TickSteps : Tick(d)

AsyncSpec == Init /\ [][AsyncNext]_vars

\* ------------------------------- every console call the code can make
CaptureNext ==
  \/ \E p \in OnePlayground : RunCode(p)
  \/ \E p \in OnePlayground, stmt \in ConsoleCalls : EvalConsole(p, stmt)
  \/ \E p \in OnePlayground : EvalReturn(p)
  \/ \E p \in OnePlayground, e \in SharedThrown : EvalThrow(p, e)
  \/ \E p \in OnePlayground : Deliver(p)
  \/ Tick(MIN_EXECUTION_INTERVAL)

CaptureSpec == Init /\ [][CaptureNext]_vars

\* ------------------------------------- the playground with its two buttons
PlayThrown == {ErrV(Boom), NullProtoV}

PlaygroundNext ==
  \/ \E p \in OnePlayground : RunCode(p)
  \/ \E p \in OnePlayground, stmt \in SharedConsoleCalls : EvalConsole(p, stmt)
  \/ \E p \in OnePlayground : EvalReturn(p)
  \/ \E p \in OnePlayground, e \in PlayThrown : EvalThrow(p, e)
  \/ \E p \in OnePlayground : Deliver(p)
  \/ \E p \in OnePlayground : EditCode(p)
  \/ \E p \in OnePlayground : ResetCode(p)
  \/ \E d \in TickSteps : Tick(d)

PlaygroundSpec == Init /\ [][PlaygroundNext]_vars

\* ------------------------------- executed code that calls execute itself
NestedCalls == {"n1"}

ReentrantInit ==
  /\ now = Epoch
  /\ lastExecution = 0
  /\ console = OriginalConsole
  /\ realConsole = 0
  /\ call = [p \in OnePlayground \cup NestedCalls |-> IdleCall]
  /\ ui = [p \in OnePlayground |-> IdleUi]
  /\ hist = [calls |-> 0, acceptLog |-> <<>>]
  /\ input = NoValue
  /\ sanitized = [done |-> FALSE, text |-> NoText]
  /\ tasks = <<>>
  /\ CatalogIdle

ReentrantNext ==
  \/ \E p \in OnePlayground : RunCode(p)
  \/ \E p \in OnePlayground, n \in NestedCalls : EvalExecute(p, n)
  \/ \E p \in OnePlayground \cup NestedCalls, stmt \in SharedConsoleCalls : EvalConsole(p, stmt)
  \/ \E p \in OnePlayground \cup NestedCalls : EvalReturn(p)
  \/ \E p \in OnePlayground \cup NestedCalls, e \in SharedThrown : EvalThrow(p, e)
  \/ \E n \in NestedCalls : NestedDone(n)
  \/ \E p \in OnePlayground : Deliver(p)
  \/ \E d \in TickSteps : Tick(d)

ReentrantSpec == ReentrantInit /\ [][ReentrantNext]_vars

\* ------------------------------------------------- sanitizeOutput on its own
SanInputs ==
  {StrV(s) : s \in Strings(MaxLen) \cup {ScriptTag, EntityText}}
  \cup {ObjV(s) : s \in Strings(1)} \cup {ArrV(s) : s \in Strings(1)}
  \cup {FunV(s) : s \in Strings(1)}
  \cup {NumV(<<"1">>), CircularV, NullProtoV, NullV, UndefinedV}

SanInit ==
  /\ now = Epoch
  /\ lastExecution = 0
  /\ console = OriginalConsole
  /\ realConsole = 0
  /\ call = [p \in OnePlayground |-> IdleCall]
  /\ ui = [p \in OnePlayground |-> IdleUi]
  /\ hist = [calls |-> 0, acceptLog |-> <<>>]
  /\ input \in SanInputs
  /\ sanitized = [done |-> FALSE, text |-> NoText]
  /\ tasks = <<>>
  /\ CatalogIdle

\* this.sanitizeOutput(arg) for one argument of a console call
Sanitize ==
  /\ ~sanitized.done
  /\ sanitized' = [done |-> TRUE, text |-> sanitizeOutput(input)]
  /\ UNCHANGED <<now, lastExecution, console, realConsole, call, ui, hist, input,
               tasks, query, answer, page>>

SanNext == Sanitize

SanSpec == SanInit /\ [][SanNext]_vars


\* ------------------------------------------------------ the catalog lookups
CatalogInit ==
  /\ now = Epoch
  /\ lastExecution = 0
  /\ console = OriginalConsole
  /\ realConsole = 0
  /\ call = [p \in OnePlayground |-> IdleCall]
  /\ ui = [p \in OnePlayground |-> IdleUi]
  /\ hist = [calls |-> 0, acceptLog |-> <<>>]
  /\ input = NoValue
  /\ sanitized = [done |-> FALSE, text |-> NoText]
  /\ tasks = <<>>
  /\ query \in [id : QueryIds, category : QueryCategories]
  /\ answer = NoAnswer
  /\ page = NoPage

SandboxUnchanged ==
  UNCHANGED <<now, lastExecution, console, realConsole, call, ui, hist, input, sanitized,
              tasks>>

\* a caller asks for the pattern with the id of the query
GetPatternById ==
  /\ ~answer.byId.done
  /\ answer' = [answer EXCEPT !.byId = [done |-> TRUE, value |-> getPatternById(query.id)]]
  /\ UNCHANGED <<query, page>>
  /\ SandboxUnchanged

\* a caller asks for the patterns of the category of the query
GetPatternsByCategory ==
  /\ ~answer.byCategory.done
  /\ answer' = [answer EXCEPT !.byCategory =
                  [done |-> TRUE, value |-> getPatternsByCategory(query.category)]]
  /\ UNCHANGED <<query, page>>
  /\ SandboxUnchanged

\* PatternsPage: the three lists and the total it renders
PatternsPage ==
  /\ ~page.shown
  /\ page' = [shown |-> TRUE,
              creational |-> getPatternsByCategory("creational"),
              structural |-> getPatternsByCategory("structural"),
              behavioral |-> getPatternsByCategory("behavioral"),
              total |-> Len(allPatterns),
              route |-> page.route]
  /\ UNCHANGED <<query, answer>>
  /\ SandboxUnchanged

CatalogNext == GetPatternById \/ GetPatternsByCategory \/ PatternsPage

CatalogSpec == CatalogInit /\ [][CatalogNext]_vars

\* ------------------------------------- navigation between pattern pages
NavInit ==
  /\ now = Epoch
  /\ lastExecution = 0
  /\ console = OriginalConsole
  /\ realConsole = 0
  /\ call = [p \in OnePlayground |-> IdleCall]
  /\ ui = [p \in OnePlayground |-> IdleUi]
  /\ hist = [calls |-> 0, acceptLog |-> <<>>]
  /\ input = NoValue
  /\ sanitized = [done |-> FALSE, text |-> NoText]
  /\ tasks = <<>>
  /\ query = [id |-> "", category |-> ""]
  /\ answer = NoAnswer
  /\ \E i \in 1..Len(generateStaticParams) :
       page = [NoPage EXCEPT !.route = PatternPage(generateStaticParams[i].slug, <<>>)]

\* the user follows the k-th related-pattern link of the open page
FollowLink(k) ==
  /\ page.route.status = "pattern"
  /\ k \in 1..Len(page.route.links)
  /\ Len(page.route.trail) < MaxHops
  /\ page' = [page EXCEPT !.route =
                PatternPage(page.route.links[k], Append(page.route.trail, page.route.slug))]
  /\ UNCHANGED <<query, answer>>
  /\ SandboxUnchanged

NavNext == \E k \in 1..Len(page.route.links) : FollowLink(k)

NavSpec == NavInit /\ [][NavNext]_vars


\* ================================================================ claims
\* the time of the most recent accepted call, 0 before any call
PrevAccepted ==
  IF hist.acceptLog = <<>> THEN 0 ELSE hist.acceptLog[Len(hist.acceptLog)].at

\* execute is called by p in this step
Called(p) == call[p].phase = "idle" /\ call'[p].phase # "idle"

LevelPrefix(level) ==
  CASE level = "log"   -> <<>>
    [] level = "error" -> <<"E", "R", "R", "O", "R", ":", " ">>
    [] level = "warn"  -> <<"W", "A", "R", "N", "I", "N", "G", ":", " ">>

\* the line a console call is to leave in the output
ExpectedLine(stmt) == LevelPrefix(stmt.level) \o SanitizedArgs(stmt.args)
ExpectedLines(made) == [i \in 1..Len(made) |-> ExpectedLine(made[i])]

\* The timeout callback can never run: whenever the thread is free the
\* timer has been cleared.
TimeoutNeverEnabled == \A p \in DOMAIN call : ~ENABLED TimeoutHandler(p)

\* C1: a call made at time t is accepted (its code is evaluated) if and
\* only if t - L >= 1000, L being the time of the most recent accepted call
\* and 0 before any call; so a call 999 ms after an accepted one is
\* rejected, one 1000 ms after it is accepted, and the first is accepted.
C1_AcceptedIffIntervalPassed ==
  [][\A p \in DOMAIN call :
       Called(p) =>
         /\ (call'[p].phase = "evaluating") <=> (now - PrevAccepted >= MIN_EXECUTION_INTERVAL)
         /\ (call'[p].phase = "evaluating") <=> call'[p].accepted
         /\ hist.calls = 0 => call'[p].phase = "evaluating"]_vars

\* a call exactly 1000 ms after the previous accepted call has been accepted
C1_Witness ==
  /\ Len(hist.acceptLog) = 2
  /\ hist.acceptLog[2].at - hist.acceptLog[1].at = MIN_EXECUTION_INTERVAL
  /\ call["p1"].phase = "evaluating"

\* C2: a rejected call resolves with an empty output and the rate-limit
\* message and changes nothing else: no code is evaluated, the console
\* functions and lastExecution stay as they were.
C2_RejectedCallChangesNothing ==
  [][\A p \in DOMAIN call :
       (Called(p) /\ now - PrevAccepted < MIN_EXECUTION_INTERVAL) =>
         /\ call'[p].phase = "settled"
         /\ call'[p].promise = "resolved"
         /\ call'[p].result = Result(<<>>, TRUE, RateLimitMessage)
         /\ call'[p].made = <<>> /\ call'[p].logs = <<>>
         /\ console' = console
         /\ realConsole' = realConsole
         /\ lastExecution' = lastExecution
         /\ lastExecution' = PrevAccepted]_vars

\* the second rejected call in a row, 999 ms after the accepted one
C2_Witness ==
  /\ hist.calls = 3
  /\ Len(hist.acceptLog) = 1
  /\ call["p1"].phase = "settled"
  /\ call["p1"].result.error = RateLimitMessage
  /\ now - PrevAccepted = 999

\* C3: an accepted call whose code has not finished 5000 ms after its
\* start is resolved by then, with the timeout error and the output so far.
C3_ResolvedByTimeout ==
  \A p \in DOMAIN call :
    (call[p].accepted /\ now - call[p].start > EXECUTION_TIMEOUT) =>
      /\ call[p].promise = "resolved"
      /\ call[p].result = Result(call[p].logs, TRUE, TimeoutMessage)

\* C4: an accepted call delivers exactly one result: the promise is
\* resolved once and never rejected, with a success or a failure result.
C4_ExactlyOneResult ==
  \A p \in DOMAIN call :
    call[p].accepted =>
      /\ call[p].promise # "rejected"
      /\ call[p].resolves <= 1
      /\ call[p].phase = "settled" =>
           /\ call[p].promise = "resolved" /\ call[p].resolves = 1
           /\ call[p].result.hasError <=> call[p].result.error # NoText

\* C5: when the code throws, execute resolves (it does not reject) with an
\* error field that contains the message of the Error, or the text of the
\* thrown value when it is not an Error.
C5_ThrowBecomesErrorField ==
  \A p \in DOMAIN call :
    call[p].threw # NoValue =>
      /\ call[p].promise = "resolved"
      /\ call[p].result.hasError
      /\ Contains(call[p].result.error,
                  IF call[p].threw.type = "error" THEN call[p].threw.str
                  ELSE String(call[p].threw))

EntityOf(ch) ==
  CASE ch = "<"  -> <<"&", "l", "t", ";">>
    [] ch = ">"  -> <<"&", "g", "t", ";">>
    [] ch = "\"" -> <<"&", "q", "u", "o", "t", ";">>
    [] ch = "'"  -> <<"&", "#", "x", "2", "7", ";">>
    [] ch = "/"  -> <<"&", "#", "x", "2", "F", ";">>
    [] OTHER     -> <<ch>>

\* C7: the text stored for a logged string is the string with each of
\* < > " ' / replaced by its entity, so it contains none of the five;
\* "<script>" gives "&lt;script&gt;" and no raw "<script>".
C7_StringsAreEntityEncoded ==
  (sanitized.done /\ input.type = "string") =>
    /\ sanitized.text = Concat([i \in 1..Len(input.str) |-> EntityOf(input.str[i])])
    /\ ~HasChar(sanitized.text, HtmlSignificant)
    /\ input.str = ScriptTag =>
         /\ Contains(sanitized.text, EscapedScriptTag)
         /\ ~Contains(sanitized.text, ScriptTag)

C7_Witness ==
  /\ sanitized.done
  /\ input = StrV(ScriptTag)
  /\ sanitized.text = EscapedScriptTag

\* C8: whatever the type of the logged value, no line handed to the
\* playground contains a raw < or >.
C8_NoRawMarkupInOutput ==
  \A p \in DOMAIN ui :
    \A i \in 1..Len(ui[p].output) : ~HasChar(ui[p].output[i], {"<", ">"})

\* C9: every console.log, console.error and console.warn call the code
\* makes while it is evaluated is appended to the call's output in call
\* order and does not reach the real console; the result holds these lines.
C9_ConsoleCallsCaptured ==
  [][\A p \in DOMAIN call :
       /\ (call[p].phase = "evaluating" /\ call'[p].made # call[p].made) =>
            /\ call'[p].logs = Append(call[p].logs, ExpectedLine(call'[p].made[Len(call'[p].made)]))
            /\ realConsole' = realConsole
       /\ (call[p].phase = "evaluating" /\ call'[p].promise = "resolved") =>
            call'[p].result.output = ExpectedLines(call[p].made)]_vars

\* a call resolved after a console.warn followed by a console.error
C9_Witness ==
  /\ call["p1"].promise = "resolved"
  /\ ~call["p1"].result.hasError
  /\ Len(call["p1"].made) = 2
  /\ call["p1"].made[1].level = "warn"
  /\ call["p1"].made[2].level = "error"
  /\ call["p1"].result.output = ExpectedLines(call["p1"].made)
  /\ realConsole = 0

\* C10: whatever the order in which the playgrounds call execute, no two
\* accepted calls have acceptance times less than 1000 ms apart.
C10_AcceptedCallsApart ==
  \A i, j \in 1..Len(hist.acceptLog) :
    i < j => hist.acceptLog[j].at - hist.acceptLog[i].at >= MIN_EXECUTION_INTERVAL

\* two playgrounds accepted exactly 1000 ms apart
C10_Witness ==
  /\ Len(hist.acceptLog) >= 2
  /\ hist.acceptLog[1].by # hist.acceptLog[2].by
  /\ hist.acceptLog[2].at - hist.acceptLog[1].at = MIN_EXECUTION_INTERVAL

\* the accepted calls whose promise is still pending
InFlight == {p \in DOMAIN call : call[p].accepted /\ call[p].promise = "pending"}

\* C11: at most one accepted execution is in flight at any moment, also
\* when an execution has been running for more than 1000 ms.
C11_AtMostOneInFlight == Cardinality(InFlight) <= 1

\* the state of a call in the terms of the state machine of the design
CallState(c) ==
  CASE c.phase = "idle"       -> "idle"
    [] c.phase = "evaluating" -> "running"
    [] ~c.accepted            -> "rejected"
    [] c.threw # NoValue      -> "errored"
    [] c.result.hasError /\ c.result.error = TimeoutMessage -> "timed-out"
    [] OTHER                  -> "completed"

Terminal == {"completed", "errored", "timed-out"}

\* C12: a call goes idle -> rate-check -> running -> completed, errored or
\* timed-out; running is entered only when the rate check passed, every
\* terminal state resolves the call, and no other transition occurs (a
\* failed rate check ends the call, and after a terminal state the
\* playground can only start a new call).
C12_StateMachine ==
  [][\A p \in DOMAIN call :
       LET a == CallState(call[p])
           b == CallState(call'[p])
       IN /\ a # b =>
               \/ a = "idle" /\ b \in {"running", "rejected"}
               \/ a = "running" /\ b \in Terminal
               \/ a \in Terminal \cup {"rejected"} /\ b = "idle"
          /\ (a = "idle" /\ b = "running") => now - PrevAccepted >= MIN_EXECUTION_INTERVAL
          /\ b \in Terminal => call'[p].promise = "resolved"]_vars

\* C13: a call whose code scheduled a callback is not reported as a success
\* before the callback has run.
C13_SuccessAfterContinuation ==
  \A p \in DOMAIN call :
    (call[p].accepted /\ call[p].promise = "resolved" /\ ~call[p].result.hasError) =>
      \A k \in 1..Len(tasks) : tasks[k].owner # p

\* C14: once the 5000 ms of a call have passed (the call being resolved as
\* timed out by then) the executed code takes no further step.
C14_NoStepAfterTimeout ==
  [][\A p \in DOMAIN call :
       (call[p].phase = "evaluating" /\ now - call[p].start >= EXECUTION_TIMEOUT) =>
         call'[p] = call[p]]_vars

\* C15: the code runs in a worker, so that while an execution is running
\* the main thread can handle another event, such as the click on Run Code
\* of another playground.
C15_MainThreadStaysResponsive ==
  \A p \in DOMAIN call :
    call[p].phase = "evaluating" =>
      \E q \in DOMAIN call \ {p} : ENABLED RunCode(q)

\* C16: inside the executed code the bare names window, document,
\* localStorage, sessionStorage, fetch and XMLHttpRequest are undefined.
C16_DeniedNamesUndefined ==
  \A p \in DOMAIN call :
    call[p].read.name \in {"window", "document", "localStorage", "sessionStorage",
                           "fetch", "XMLHttpRequest"}
      => call[p].read.value = "undefined"

\* the executed code has read sessionStorage
C16_Witness ==
  /\ call["p1"].phase = "evaluating"
  /\ call["p1"].read = [name |-> "sessionStorage", value |-> "undefined"]

\* C17: for every record r of the catalog getPatternById(r.id) returns r,
\* the ids being pairwise distinct; for an id no record has it returns
\* undefined.
C17_GetByIdReturnsTheRecord ==
  /\ \A i, j \in 1..Len(allPatterns) : i # j => allPatterns[i].id # allPatterns[j].id
  /\ answer.byId.done =>
       /\ \A i \in 1..Len(allPatterns) :
            allPatterns[i].id = query.id => answer.byId.value = allPatterns[i]
       /\ (\A i \in 1..Len(allPatterns) : allPatterns[i].id # query.id) =>
            answer.byId.value = Undefined

\* the last record of the catalog has been looked up
C17_Witness ==
  /\ answer.byId.done
  /\ query.id = "state"
  /\ answer.byId.value.name = "State"
  /\ answer.byId.value = allPatterns[Len(allPatterns)]

\* C18: every entry of the relatedPatterns of a record of the catalog is
\* the id of a record getPatternById finds.
C18_RelatedPatternsResolve ==
  (answer.byId.done /\ answer.byId.value # Undefined) =>
    \A k \in 1..Len(answer.byId.value.relatedPatterns) :
      LET related == getPatternById(answer.byId.value.relatedPatterns[k]) IN
      /\ related # Undefined
      /\ related.id = answer.byId.value.relatedPatterns[k]

C18_Witness ==
  /\ answer.byId.done
  /\ answer.byId.value.id = "prototype"
  /\ Len(answer.byId.value.relatedPatterns) = 3

\* C19: the results of getPatternsByCategory for creational, structural and
\* behavioral hold every record of allPatterns exactly once and nothing else.
C19_CategoriesPartitionCatalog ==
  page.shown =>
    LET shown == page.creational \o page.structural \o page.behavioral IN
    /\ \A i \in 1..Len(allPatterns) :
         Cardinality({k \in 1..Len(shown) : shown[k] = allPatterns[i]}) = 1
    /\ \A k \in 1..Len(shown) : \E i \in 1..Len(allPatterns) : shown[k] = allPatterns[i]
    /\ \A k, l \in 1..Len(shown) : k # l => shown[k] # shown[l]
    /\ Len(shown) = page.total

C19_Witness ==
  /\ page.shown
  /\ page.creational # <<>> /\ page.structural # <<>> /\ page.behavioral # <<>>
  /\ page.total = Len(page.creational) + Len(page.structural) + Len(page.behavioral)

\* C20: getPatternsByCategory(c) is the records of category c in the order
\* they have in allPatterns, and the empty sequence when no record has c.
C20_ByCategoryKeepsOrder ==
  answer.byCategory.done =>
    LET r == answer.byCategory.value
        idx == {i \in 1..Len(allPatterns) : allPatterns[i].category = query.category}
    IN /\ Len(r) = Cardinality(idx)
       /\ \A i \in idx : r[Cardinality({j \in idx : j <= i})] = allPatterns[i]
       /\ query.category \notin Categories => r = <<>>

\* the five structural patterns, which follow the creational ones
C20_Witness ==
  /\ answer.byCategory.done
  /\ query.category = "structural"
  /\ Len(answer.byCategory.value) = 5
  /\ answer.byCategory.value[1].id = "decorator"
  /\ answer.byCategory.value[5].id = "proxy"

\* C21: the catalog holds 14 patterns; getPatternsByCategory gives the 5
\* records of creationalPatterns, the 5 of structuralPatterns and the 4 of
\* behavioralPatterns, each result being the exported list itself.
C21_CategoryListsMatch ==
  /\ Len(allPatterns) = 14
  /\ answer.byCategory.done =>
       /\ query.category = "creational" =>
            answer.byCategory.value = creationalPatterns /\ Len(answer.byCategory.value) = 5
       /\ query.category = "structural" =>
            answer.byCategory.value = structuralPatterns /\ Len(answer.byCategory.value) = 5
       /\ query.category = "behavioral" =>
            answer.byCategory.value = behavioralPatterns /\ Len(answer.byCategory.value) = 4
  /\ page.shown =>
       /\ page.creational = creationalPatterns
       /\ page.structural = structuralPatterns
       /\ page.behavioral = behavioralPatterns
       /\ page.total = 14

\* the behavioral patterns have been asked for
C21_Witness ==
  /\ answer.byCategory.done
  /\ query.category = "behavioral"
  /\ Len(answer.byCategory.value) = 4
  /\ page.shown

\* C28: following related-pattern links from the page of a catalog pattern
\* only reaches pages of catalog patterns, never the not-found page; every
\* rendered link leads to the id of a pattern, and generateStaticParams has
\* exactly one slug for each pattern.
C28_LinksStayInCatalog ==
  /\ page.route.status = "pattern"
  /\ \E i \in 1..Len(allPatterns) : allPatterns[i].id = page.route.slug
  /\ \A k \in 1..Len(page.route.links) :
       getPatternById(page.route.links[k]).id = page.route.links[k]
  /\ Len(generateStaticParams) = Len(allPatterns)
  /\ \A i \in 1..Len(allPatterns) :
       Cardinality({j \in 1..Len(generateStaticParams) :
                      generateStaticParams[j].slug = allPatterns[i].id}) = 1

\* three links followed, from a creational to a behavioral pattern
C28_Witness ==
  /\ page.route.status = "pattern"
  /\ Len(page.route.trail) = 3
  /\ page.route.trail[1] = "builder"
  /\ getPatternById(page.route.slug).category = "behavioral"

\* the character references an HTML parser decodes in text
Entities ==
  { [text |-> <<"&", "l", "t", ";">>, ch |-> "<"],
    [text |-> <<"&", "g", "t", ";">>, ch |-> ">"],
    [text |-> <<"&", "q", "u", "o", "t", ";">>, ch |-> "\""],
    [text |-> <<"&", "#", "x", "2", "7", ";">>, ch |-> "'"],
    [text |-> <<"&", "#", "x", "2", "F", ";">>, ch |-> "/"],
    [text |-> <<"&", "a", "m", "p", ";">>, ch |-> "&"] }

StartsWith(s, t) == Len(t) <= Len(s) /\ SubSeq(s, 1, Len(t)) = t

\* the text a line shows when it is rendered as HTML: every character
\* reference replaced by its character, left to right
RECURSIVE HtmlDecode(_)
HtmlDecode(s) ==
  IF s = <<>> THEN <<>>
  ELSE IF \E en \in Entities : StartsWith(s, en.text)
       THEN LET en == CHOOSE x \in Entities : StartsWith(s, x.text)
            IN <<en.ch>> \o HtmlDecode(SubSeq(s, Len(en.text) + 1, Len(s)))
       ELSE <<Head(s)>> \o HtmlDecode(Tail(s))

\* C29: for every string s, rendering sanitizeOutput(s) as HTML shows
\* exactly s.
C29_SanitizeIsLossless ==
  (sanitized.done /\ input.type = "string") => HtmlDecode(sanitized.text) = input.str

\* C23: whenever no accepted execution is in flight, console.log,
\* console.error and console.warn are the functions they were before the
\* first call, whatever calls were made and however they ended.
C23_ConsoleRestored == InFlight = {} => console = OriginalConsole

\* the third call, made after a rate-limited one, has thrown a value that
\* could not be converted to a string
C23_Witness ==
  /\ InFlight = {}
  /\ hist.calls = 3
  /\ Len(hist.acceptLog) = 2
  /\ call["p1"].accepted /\ call["p1"].threw = NullProtoV
  /\ console = OriginalConsole

\* the text a console call of the given level is to leave: the sanitized
\* arguments separated by single spaces, after the prefix of the level
C27_Line(stmt) ==
  LET joined == Join([i \in 1..Len(stmt.args) |-> sanitizeOutput(stmt.args[i])], <<" ">>)
  IN (CASE stmt.level = "error" -> <<"E", "R", "R", "O", "R", ":", " ">>
        [] stmt.level = "warn"  -> <<"W", "A", "R", "N", "I", "N", "G", ":", " ">>
        [] OTHER                -> <<>>) \o joined

\* C27: the output of a call holds exactly one line for each console call
\* the code has made, in order: the sanitized arguments joined by single
\* spaces, with 'ERROR: ' for console.error, 'WARNING: ' for console.warn
\* and no prefix for console.log.
C27_OneLinePerConsoleCall ==
  \A p \in DOMAIN call :
    call[p].accepted =>
      /\ Len(call[p].logs) = Len(call[p].made)
      /\ \A i \in 1..Len(call[p].made) : call[p].logs[i] = C27_Line(call[p].made[i])

\* a console.log with two arguments followed by a console.warn
C27_Witness ==
  /\ call["p1"].phase = "evaluating"
  /\ Len(call["p1"].made) = 2
  /\ Len(call["p1"].made[1].args) = 2
  /\ call["p1"].made[2].level = "warn"
  /\ call["p1"].logs[1] = <<"a", " ", "1">>

\* C22: Run Code and Reset are disabled exactly while a run of the
\* playground is in flight: Run Code is enabled before the first run, a
\* click is possible exactly when the button is not disabled, so Reset
\* leaves Run Code enabled and no second run starts during a run.
C22_ButtonsDisabledWhileRunning ==
  \A p \in DOMAIN ui :
    /\ RunDisabled(p) <=> call[p].phase # "idle"
    /\ ResetDisabled(p) <=> call[p].phase # "idle"
    /\ hist.calls = 0 => ~RunDisabled(p)
    /\ hist.calls < MaxCalls => (ENABLED RunCode(p) <=> ~RunDisabled(p))
    /\ ENABLED ResetCode(p) <=> ~ResetDisabled(p)
    /\ ui[p].wasReset => ~RunDisabled(p)

\* Reset has been clicked after a run, and Run Code can be clicked
C22_Witness ==
  /\ ui["p1"].wasReset
  /\ hist.calls = 1
  /\ ~RunDisabled("p1")
  /\ ENABLED RunCode("p1")

\* C25: a run starts by clearing output and error and setting isRunning;
\* when execute has resolved, the playground shows the output and the
\* error of that result (no error for a success), and isRunning is false
\* again after the run, also when the promise was rejected.
C25_DisplayIsTheResult ==
  [][\A p \in DOMAIN ui :
       /\ (~ui[p].isRunning /\ ui'[p].isRunning) =>
            ui'[p].output = <<>> /\ ~ui'[p].hasError /\ ui'[p].error = NoText
       /\ (call[p].phase = "settled" /\ call'[p].phase = "idle") =>
            /\ ~ui'[p].isRunning
            /\ call[p].promise = "resolved" =>
                 /\ ui'[p].output = call[p].result.output
                 /\ ui'[p].hasError = call[p].result.hasError
                 /\ ui'[p].error = (IF call[p].result.hasError THEN call[p].result.error
                                    ELSE NoText)
       /\ (ui[p].isRunning /\ call'[p].phase # "idle") =>
            ui'[p].output = <<>> /\ ~ui'[p].hasError]_vars

\* the second run has ended with an error after a console call, and the
\* playground shows both
C25_Witness ==
  /\ hist.calls = 2
  /\ call["p1"].phase = "idle"
  /\ ~ui["p1"].isRunning
  /\ ui["p1"].hasError /\ ui["p1"].error = ErrorPrefix \o Boom
  /\ Len(ui["p1"].output) = 1

\* C26: after Reset the editor holds the original code, the output list is
\* empty and no error is shown, so the output panel is hidden.
C26_ResetClearsDisplay ==
  \A p \in DOMAIN ui :
    ui[p].wasReset =>
      /\ ui[p].code = "original"
      /\ ui[p].output = <<>>
      /\ ~ui[p].hasError
      /\ ~PanelShown(p)

\* C24: the output of a result that execute has handed over does not
\* change any more, neither in the result nor in what the playground got
\* from it, whatever console calls the executed code makes afterwards.
C24_DeliveredOutputIsFrozen ==
  [][\A p \in DOMAIN ui :
       /\ (call[p].promise = "resolved" /\ call'[p].promise = "resolved"
             /\ call'[p].gen = call[p].gen) =>
            call'[p].result.output = call[p].result.output
       /\ (ui[p].outputOf # 0 /\ ui'[p].outputOf = ui[p].outputOf) =>
            ui'[p].output = ui[p].output]_vars

====
